---- MODULE Spec2Model ----
(***************************************************************************)
(* A model of sciunit's judging protocol (src/sciunit/__init__.py):        *)
(* Capability.check, Test.check_capabilities, Test.check, Test._judge,     *)
(* Test.judge and the Score constructors.                                  *)
(*                                                                         *)
(* Python values are records tagged by the field py.  A call of a Python   *)
(* function is an operator that yields a call result: Ret(v) when the call *)
(* returns v and Raise(e) when it raises the exception e.                  *)
(***************************************************************************)
EXTENDS Integers, Sequences, FiniteSets, TLC

\* Longest required_capabilities sequence a test class declares.
MaxReq == 2

\* Longest list of tests given to TestSuite and of models given to its judge.
MaxLen == 2

\* Most cells (tests times models) of a TestSuite.judge run.
MaxCells == 4

\* Most scores constructed while their related_data is studied.
MaxScores == 2

\* Most values the cache of a memoized function holds.
MaxCache == 2

VARIABLES
  py3,                    \* TRUE: the interpreter is Python 3, FALSE: Python 2
  required_capabilities,  \* Test.required_capabilities, per test
  score_type,             \* Test.score_type, per test
  observation,            \* Test.observation, per test
  last_model,             \* Test.last_model, per test
  result,                 \* the last call made on the program and its outcome
  suite,                  \* the TestSuite that was constructed, PyNone before
  run,                    \* the TestSuite.judge call in progress or last made
  matrix,                 \* the ScoreMatrix of that call, or the one under study
  author,                 \* what the test author's pure methods do, and the first outcomes
  heap,                   \* the scores constructed and the contents of their related_data
  memo,                   \* a function wrapped by memoize: its signature and its cache
  cached_runs             \* a model with a method_cache method, and its class's cached_runs

vars == <<py3, required_capabilities, score_type, observation, last_model, result,
          suite, run, matrix, author, heap, memo, cached_runs>>

----------------------------------------------------------------------------
(* The objects of the run.                                                 *)

Tests == {"t1"}

\* The test instances that suites are built of.
SuiteTests == {"t1", "t2"}

\* Capability classes.  c2 declares a class attribute name of its own, c1
\* relies on the name property of Capability.__metaclass__.
Capabilities == {"c1", "c2"}
NamedCapabilities == {"c2"}

\* Model instances, and the capability classes each one's class inherits.
Models == {"m1", "m2", "m3"}
ModelBases == [m \in Models |-> CASE m = "m1" -> {"c1", "c2"}
                                  [] m = "m2" -> {"c1"}
                                  [] OTHER    -> {}]

\* Objects that are not instances of Model.
NonModels == {"x1"}

\* Test.last_model before the first prediction: the attribute does not exist.
NoAttr == "no_attribute"

----------------------------------------------------------------------------
(* Python values.                                                          *)

PyNone == [py |-> "None"]
PyBool(b) == [py |-> "bool", v |-> b]
PyStr(s) == [py |-> "str", v |-> s]

\* A reference to the test or model object x, as held in an attribute.
PyRef(x) == [py |-> "object", id |-> x]

\* An exception instance of class cls constructed with args.
Exc(cls, args) == [py |-> "exc", cls |-> cls, args |-> args]

IsException(v) == v.py = "exc"

\* str(e) of an exception: its message, a str.
str(e) == PyStr(e.args)

\* The dict a Score.__init__ call creates, and the dict object that is the
\* default value of the related_data parameter of cls.__init__.
FreshDict == [py |-> "dict", ref |-> "fresh"]
DefaultDict(cls) == [py |-> "dict", ref |-> cls]

Ret(v) == [raised |-> FALSE, val |-> v]
Raise(e) == [raised |-> TRUE, val |-> e]

----------------------------------------------------------------------------
(* The Score class hierarchy.                                              *)

ScoreClasses == {"Score", "ErrorScore", "NoneScore", "TBDScore", "NAScore",
                 "BooleanScore", "OtherScore"}

\* The direct base class of each Score class (Score derives from object).
Base(cls) == CASE cls \in {"TBDScore", "NAScore"} -> "NoneScore"
               [] cls \in {"ErrorScore", "NoneScore", "BooleanScore", "OtherScore"} -> "Score"
               [] OTHER -> "object"

IsSubclass(cls, of) ==
  \/ cls = of
  \/ Base(cls) = of
  \/ Base(Base(cls)) = of

IsScore(v) == v.py = "score"

\* isinstance(v, cls) for a Score class cls.
isinstance(v, cls) == IsScore(v) /\ IsSubclass(v.cls, cls)

\* Score.__init__ without the change of __class__.
Score__init__same_class(cls, score, related_data) ==
  Ret([py |-> "score",
       cls |-> cls,
       score |-> score,
       related_data |-> IF related_data = PyNone THEN [py |-> "dict", ref |-> "fresh"]
                        ELSE related_data,
       test |-> PyNone,
       model |-> PyNone,
       prediction |-> [py |-> NoAttr],
       observation |-> [py |-> NoAttr]])

\* Score.__init__ run on a new instance of cls.
Score__init__(cls, score, related_data) ==
  Ret([py |-> "score",
       cls |-> IF IsException(score) THEN "ErrorScore" ELSE cls,
       score |-> score,
       related_data |-> IF related_data = PyNone THEN FreshDict ELSE related_data,
       test |-> PyNone,
       model |-> PyNone,
       prediction |-> [py |-> NoAttr],
       observation |-> [py |-> NoAttr]])

ErrorScore(exn) == Score__init__("ErrorScore", exn, PyNone)

\* NoneScore.__init__ without the test of the raw value.
NoneScore__init__unchecked(cls, score, related_data) ==
  Score__init__(cls, score, related_data)

\* NoneScore.__init__ run on a new instance of cls.
NoneScore__init__(cls, score, related_data) ==
  IF IsException(score) \/ score = PyNone
  THEN Score__init__(cls, score, related_data)
  ELSE Raise(Exc("InvalidScoreError", <<"Score must be None.">>))

TBDScore(score) == NoneScore__init__("TBDScore", score, DefaultDict("TBDScore"))

NAScore(score) == NoneScore__init__("NAScore", score, DefaultDict("NAScore"))

\* The call cls(raw) of a Score class: ErrorScore and the NoneScore family
\* define __init__, every other class inherits Score.__init__.
NewScore(cls, raw) ==
  CASE cls = "ErrorScore" -> ErrorScore(raw)
    [] cls = "NoneScore" -> NoneScore__init__("NoneScore", raw, DefaultDict("NoneScore"))
    [] cls = "TBDScore" -> TBDScore(raw)
    [] cls = "NAScore" -> NAScore(raw)
    [] OTHER -> Score__init__(cls, raw, PyNone)

----------------------------------------------------------------------------
(* Capabilities.                                                           *)

IsModel(x) == x \in Models

\* Capability.check(model): isinstance(model, cls).
Capability_check(c, model) == c \in ModelBases[model]

\* Whether c.name resolves.  Python 2 applies the nested __metaclass__, whose
\* property gives every capability class a name; Python 3 ignores it, and
\* only a class that declares name has one.
HasName(c) == ~py3 \/ c \in NamedCapabilities

\* CapabilityError(model, capability): the constructor reads capability.name.
CapabilityError(model, capability) ==
  IF HasName(capability)
  THEN Ret(Exc("CapabilityError", <<model, capability>>))
  ELSE Raise(Exc("AttributeError", <<capability, "name">>))

Min(S) == CHOOSE i \in S : \A j \in S : i <= j

\* Test.check_capabilities(model)
check_capabilities(t, model) ==
  IF ~IsModel(model)
  THEN Raise(Exc("Error", <<"not a sciunit.Model", model>>))
  ELSE LET reqs == required_capabilities[t]
           failing == {i \in 1..Len(reqs) : ~Capability_check(reqs[i], model)}
       IN IF failing = {}
          THEN Ret(PyBool(TRUE))
          ELSE LET e == CapabilityError(model, reqs[Min(failing)])
               IN IF e.raised THEN e ELSE Raise(e.val)

----------------------------------------------------------------------------
(* What the test author's methods do when they are called.                 *)

Prediction(p) == [py |-> "prediction", v |-> p]
Observation(o) == [py |-> "observation", v |-> o]

\* An exception raised by the test author's code.
ValueError(id) == Exc("ValueError", <<id>>)

\* The marker of a method that the call did not reach.
NotCalled == [raised |-> FALSE, val |-> [py |-> "not_called"]]

\* Outcomes of Test.generate_prediction(model): a prediction, or an exception
\* (a CapabilityError included, raised by a capability check of the author's).
\* _judge calls the method only after the capability check has passed.
GenOutcomes ==
  {Ret(Prediction("p1"))}
    \cup {Raise(ValueError("generate_prediction")),
          Raise(Exc("CapabilityError", <<"m1", "c2">>))}

\* Outcomes of Test.compute_score(observation, prediction): a score built by
\* one of the constructors, a value that is no Score, or an exception.
ScoreOutcomes ==
  {Score__init__(c, raw, PyNone) :
     c \in {"Score", "BooleanScore", "OtherScore"},
     raw \in {PyBool(TRUE), ValueError("raw")}}
    \cup {NAScore(PyNone), ErrorScore(PyStr("message")), Ret(PyBool(TRUE)),
          Raise(ValueError("compute_score"))}

----------------------------------------------------------------------------
(* Test.check, Test._judge and Test.judge.                                 *)

\* The name e after the try statement of Test.check, given the outcome cc of
\* the capability check: Python 3 unbinds the target of "except ... as e"
\* when the handler ends, Python 2 leaves it bound to the exception.
Unbound == [py |-> "unbound"]

check_e(cc) ==
  IF ~cc.raised THEN PyNone
  ELSE IF py3 THEN Unbound ELSE cc.val

\* Test.check(model, stop_on_error)
check(t, model, stop_on_error) ==
  LET cc == check_capabilities(t, model)
      score == IF cc.raised THEN ErrorScore(cc.val)
               ELSE IF cc.val = PyBool(TRUE) THEN TBDScore(PyNone)
               ELSE NAScore(PyNone)
      e == check_e(cc)
  IN IF score.raised THEN score
     ELSE IF e = Unbound THEN Raise(Exc("UnboundLocalError", <<"e">>))
     ELSE IF e # PyNone /\ stop_on_error THEN Raise(e)
     ELSE score

\* The outcome of a _judge or judge call: what it returned or raised, the
\* value of self.last_model afterwards, and what the author's methods did
\* (NotCalled for a method that was not reached).
Outcome(res, lm, gp, cs) ==
  [raised |-> res.raised, val |-> res.val, last_model |-> lm, gp |-> gp, cs |-> cs]

\* Step 4 of _judge with the arguments of isinstance exchanged.
judge_score_ok_swapped(t, score) ==
  IsScore(score) /\ IsSubclass(score_type[t], score.cls)

\* Step 4 of _judge testing against Score in place of self.score_type.
judge_score_ok_any(t, score) == isinstance(score, "Score")

\* Step 4 of _judge: isinstance(score, self.score_type).
judge_score_ok(t, score) == isinstance(score, score_type[t])

\* Step 5 of _judge with the assignment of score.test left out.
judge_equip_no_test(t, model, prediction, score) ==
  [score EXCEPT !.model = PyRef(model),
                !.prediction = prediction,
                !.observation = observation[t]]

\* Step 5 of _judge: the score is equipped with its metadata.
judge_equip(t, model, prediction, score) ==
  [score EXCEPT !.model = PyRef(model),
                !.test = PyRef(t),
                !.prediction = prediction,
                !.observation = observation[t]]

\* Test._judge recording the model only when it returns the score.
_judge_recording_late(t, model, gp, cs) ==
  LET cc == check_capabilities(t, model)
  IN IF cc.raised THEN Outcome(cc, last_model[t], NotCalled, NotCalled)
     ELSE IF gp.raised THEN Outcome(gp, last_model[t], gp, NotCalled)
     ELSE IF cs.raised THEN Outcome(cs, last_model[t], gp, cs)
     ELSE IF ~judge_score_ok(t, cs.val)
          THEN Outcome(Raise(Exc("InvalidScoreError", <<"not of correct type", t>>)),
                       last_model[t], gp, cs)
          ELSE Outcome(Ret(judge_equip(t, model, gp.val, cs.val)), model, gp, cs)

\* Test._judge(model), where generate_prediction does gp and compute_score
\* does cs.
_judge(t, model, gp, cs) ==
  LET cc == check_capabilities(t, model)
  IN IF cc.raised THEN Outcome(cc, last_model[t], NotCalled, NotCalled)
     ELSE IF gp.raised THEN Outcome(gp, last_model[t], gp, NotCalled)
     ELSE IF cs.raised THEN Outcome(cs, model, gp, cs)
     ELSE IF ~judge_score_ok(t, cs.val)
          THEN Outcome(Raise(Exc("InvalidScoreError", <<"not of correct type", t>>)),
                       model, gp, cs)
          ELSE Outcome(Ret(judge_equip(t, model, gp.val, cs.val)), model, gp, cs)

\* The handlers of Test.judge wrapping the message in place of the exception.
judge_except_message(e) ==
  IF e.cls = "CapabilityError" THEN NAScore(str(e)) ELSE ErrorScore(str(e))

\* The try statement of Test.judge: the score that the handlers make of an
\* exception e raised by _judge.  A handler that raises ends the call.
judge_except(e) ==
  IF e.cls = "CapabilityError" THEN NAScore(str(e)) ELSE ErrorScore(e)

\* The statement "raise v".
PyRaise(v) ==
  IF IsException(v) THEN Raise(v)
  ELSE Raise(Exc("TypeError", <<"exceptions must derive from BaseException">>))

\* The last statements of Test.judge without the test of stop_on_error.
judge_return_always(score, stop_on_error) == Ret(score)

\* The last statements of Test.judge: raise the exception of an ErrorScore when
\* stop_on_error is set, return the score otherwise.
judge_return(score, stop_on_error) ==
  IF score.cls = "ErrorScore" /\ stop_on_error THEN PyRaise(score.score)
  ELSE Ret(score)

\* Test.judge with the handlers applied under deep_error as well.
judge_shallow(t, model, stop_on_error, deep_error, gp, cs) ==
  LET j == _judge(t, model, gp, cs)
      tried == IF j.raised THEN judge_except(j.val)
               ELSE [raised |-> j.raised, val |-> j.val]
      res == IF tried.raised THEN tried ELSE judge_return(tried.val, stop_on_error)
  IN Outcome(res, j.last_model, j.gp, j.cs)

\* Test.judge(model, stop_on_error, deep_error)
judge(t, model, stop_on_error, deep_error, gp, cs) ==
  LET j == _judge(t, model, gp, cs)
      tried == IF j.raised /\ ~deep_error THEN judge_except(j.val)
               ELSE [raised |-> j.raised, val |-> j.val]
      res == IF tried.raised THEN tried ELSE judge_return(tried.val, stop_on_error)
  IN Outcome(res, j.last_model, j.gp, j.cs)

----------------------------------------------------------------------------
(* TestSuite and ScoreMatrix.                                              *)

IsTest(x) == x \in SuiteTests

\* Python values given as arguments: a single object (a Test, a Model or
\* another object, none of them iterable), a list and a tuple.
PyList(items) == [py |-> "list", items |-> items]
PyTuple(items) == [py |-> "tuple", items |-> items]

Range(seq) == {seq[i] : i \in 1..Len(seq)}

\* ScoreMatrix.__init__(tests, models): a cell holding None for every test
\* and every model.
ScoreMatrix__init__(tests, models) ==
  [py |-> "matrix", tests |-> tests, models |-> models,
   _matrix |-> [t \in Range(tests) |-> [m \in Range(models) |-> PyNone]]]

\* The statement (test, model) = key: a tuple of two items unpacks, any other
\* key raises (TypeError for an object that is not iterable, ValueError for
\* a tuple of another length).
Unpack2(key) ==
  IF key.py = "tuple"
  THEN IF Len(key.items) = 2 THEN Ret(key.items)
       ELSE Raise(Exc("ValueError", <<"unpack">>))
  ELSE Raise(Exc("TypeError", <<"unpack">>))

\* The outcome of a method that may change the matrix: what it returned or
\* raised, and the matrix afterwards.
MatrixOutcome(res, mat) == [raised |-> res.raised, val |-> res.val, matrix |-> mat]

\* An assignment that overwrites every value of the dict.
DictSet_every_key(d, k, v) == [x \in DOMAIN d \cup {k} |-> v]

\* The dict d after d[k] = v.
DictSet(d, k, v) == [x \in DOMAIN d \cup {k} |-> IF x = k THEN v ELSE d[x]]

\* ScoreMatrix.__setitem__ that stores nothing.
ScoreMatrix__setitem__no_store(mat, key, value) ==
  MatrixOutcome(Ret(PyNone), mat)

\* ScoreMatrix.__setitem__(key, value)
ScoreMatrix__setitem__(mat, key, value) ==
  LET u == Unpack2(key)
  IN IF u.raised THEN MatrixOutcome(u, mat)
     ELSE LET test == u.val[1]
              model == u.val[2]
          IN IF IsTest(test) /\ IsModel(model) /\ IsScore(value)
             THEN IF test \notin DOMAIN mat._matrix
                  THEN MatrixOutcome(Raise(Exc("KeyError", <<test>>)), mat)
                  ELSE MatrixOutcome(Ret(PyNone),
                         [mat EXCEPT !._matrix[test] = DictSet(@, model, value)])
             ELSE MatrixOutcome(Raise(Exc("Error", <<"Expected (test, model) = score.">>)),
                                mat)

\* The tuple built of the lookups, each the value found or the KeyError
\* raised: the first KeyError ends the evaluation.
TupleOf(lookups) ==
  LET bad == {i \in 1..Len(lookups) : lookups[i].raised}
  IN IF bad = {} THEN Ret(PyTuple([i \in 1..Len(lookups) |-> lookups[i].val]))
     ELSE lookups[Min(bad)]

\* self._matrix[test][model]
MatrixCell(mat, test, model) ==
  IF test \notin DOMAIN mat._matrix THEN Raise(Exc("KeyError", <<test>>))
  ELSE IF model \notin DOMAIN mat._matrix[test] THEN Raise(Exc("KeyError", <<model>>))
  ELSE Ret(mat._matrix[test][model])

\* ScoreMatrix.__getitem__ that runs over the models and the tests from the
\* last to the first.
ScoreMatrix__getitem__reversed(mat, key) ==
  IF key.py = "object" /\ IsTest(key.id)
  THEN TupleOf([j \in 1..Len(mat.models) |->
                  MatrixCell(mat, key.id, mat.models[Len(mat.models) + 1 - j])])
  ELSE IF key.py = "object" /\ IsModel(key.id)
  THEN TupleOf([i \in 1..Len(mat.tests) |->
                  MatrixCell(mat, mat.tests[Len(mat.tests) + 1 - i], key.id)])
  ELSE LET u == Unpack2(key)
       IN IF u.raised THEN u ELSE MatrixCell(mat, u.val[1], u.val[2])

\* ScoreMatrix.__getitem__(key)
ScoreMatrix__getitem__(mat, key) ==
  IF key.py = "object" /\ IsTest(key.id)
  THEN TupleOf([j \in 1..Len(mat.models) |-> MatrixCell(mat, key.id, mat.models[j])])
  ELSE IF key.py = "object" /\ IsModel(key.id)
  THEN TupleOf([i \in 1..Len(mat.tests) |-> MatrixCell(mat, mat.tests[i], key.id)])
  ELSE LET u == Unpack2(key)
       IN IF u.raised THEN u ELSE MatrixCell(mat, u.val[1], u.val[2])

\* The first statements of TestSuite.__init__ without the test of the items.
TestSuite_tests_unchecked(tests) ==
  IF tests.py = "object"
  THEN IF IsTest(tests.id) THEN Ret(<<tests.id>>)
       ELSE Raise(Exc("Error", <<"Test suite was not provided a test or iterable.">>))
  ELSE Ret(tests.items)

\* The first statements of TestSuite.__init__: the tests argument as the
\* sequence that becomes self.tests.
TestSuite_tests(tests) ==
  IF tests.py = "object"
  THEN IF IsTest(tests.id) THEN Ret(<<tests.id>>)
       ELSE Raise(Exc("Error", <<"Test suite was not provided a test or iterable.">>))
  ELSE IF \E i \in 1..Len(tests.items) : ~IsTest(tests.items[i])
  THEN Raise(Exc("Error", <<"Test suite provided an iterable containing a non-Test.">>))
  ELSE Ret(tests.items)

\* TestSuite.__init__(name, tests)
TestSuite__init__(name, tests) ==
  LET ts == TestSuite_tests(tests)
  IN IF ts.raised THEN ts
     ELSE IF name = PyNone THEN Raise(Exc("Error", <<"Suite name required.">>))
     ELSE Ret([py |-> "suite", name |-> name, tests |-> ts.val])

\* The first statements of TestSuite.judge without the test of the items.
TestSuite_judge_models_unchecked(models) ==
  IF models.py = "object"
  THEN IF IsModel(models.id) THEN Ret(<<models.id>>)
       ELSE Raise(Exc("Error", <<"judge method not provided a model or iterable.">>))
  ELSE Ret(models.items)

\* The first statements of TestSuite.judge: the models argument as the
\* sequence that the loops run over.
TestSuite_judge_models(models) ==
  IF models.py = "object"
  THEN IF IsModel(models.id) THEN Ret(<<models.id>>)
       ELSE Raise(Exc("Error", <<"judge method not provided a model or iterable.">>))
  ELSE IF \E j \in 1..Len(models.items) : ~IsModel(models.items[j])
  THEN Raise(Exc("Error", <<"judge method provided an iterable containing a non-Model.">>))
  ELSE Ret(models.items)

\* The loops of TestSuite.judge with the models as the outer loop.
judge_loop_next_by_model(i, j, ntests, nmodels) ==
  IF i < ntests THEN <<i + 1, j>> ELSE <<1, j + 1>>

\* The loops of TestSuite.judge: the position after cell (i, j), where i
\* counts the tests (outer loop) and j the models (inner loop).
judge_loop_next(i, j, ntests, nmodels) ==
  IF j < nmodels THEN <<i, j + 1>> ELSE <<i + 1, 1>>

\* A TestSuite.judge call: the argument and flag it was made with, the
\* models it loops over, where it stands (pc is "idle" before any call, then
\* "running", "returned" or "raised"; i and j are the cell to judge next), the
\* exception it raised, the test.judge calls it made and the cells it stored.
NoRun ==
  [pc |-> "idle", arg |-> PyNone, stop_on_error |-> FALSE, models |-> <<>>,
   i |-> 1, j |-> 1, val |-> PyNone, judged |-> <<>>, stored |-> <<>>]

----------------------------------------------------------------------------
(* The state machine: a test is constructed, then its methods are called.  *)

\* The required_capabilities a test class may declare.
ReqSeqs == UNION {[1..n -> Capabilities] : n \in 0..MaxReq}

\* The score_type a test class may declare: Test.__init__ accepts only
\* subclasses of Score.
TestScoreTypes == {"Score", "BooleanScore"}

NoCall ==
  [op |-> "none", test |-> "none", arg |-> "none", stop_on_error |-> FALSE,
   deep_error |-> FALSE, gp |-> NotCalled, cs |-> NotCalled,
   raw |-> PyNone, raised |-> FALSE, val |-> PyNone]

Init ==
  /\ py3 \in BOOLEAN
  /\ required_capabilities \in [Tests -> ReqSeqs]
  /\ score_type \in [Tests -> TestScoreTypes]
  /\ observation = [t \in Tests |-> Observation("o1")]
  /\ last_model = [t \in Tests |-> NoAttr]
  /\ result = NoCall
  /\ suite = PyNone
  /\ run = NoRun
  /\ matrix = PyNone
  /\ author = PyNone /\ heap = PyNone /\ memo = PyNone /\ cached_runs = PyNone

\* t.check_capabilities(x)
CallCheckCapabilities ==
  \E t \in Tests, x \in Models \cup NonModels :
    LET r == check_capabilities(t, x) IN
       /\ result' = [NoCall EXCEPT !.op = "check_capabilities", !.test = t, !.arg = x,
                                   !.raised = r.raised, !.val = r.val]
       /\ UNCHANGED <<author, heap, memo, cached_runs, py3, required_capabilities, score_type, observation, last_model,
                      suite, run, matrix>>

\* t.check(x, stop_on_error)
CallCheck ==
  \E t \in Tests, x \in Models \cup NonModels, s \in BOOLEAN :
    \E r \in {check(t, x, s)} :
       /\ result' = [NoCall EXCEPT !.op = "check", !.test = t, !.arg = x,
                                   !.stop_on_error = s,
                                   !.raised = r.raised, !.val = r.val]
       /\ UNCHANGED <<author, heap, memo, cached_runs, py3, required_capabilities, score_type, observation, last_model,
                      suite, run, matrix>>

\* t.judge(x, stop_on_error, deep_error).  The outcome of a method of the test
\* author's is drawn when the call reaches the method.
CallJudge ==
  \E t \in Tests, x \in Models \cup NonModels, s \in BOOLEAN, d \in BOOLEAN :
  \E gp \in IF check_capabilities(t, x).raised THEN {NotCalled} ELSE GenOutcomes :
  \E cs \in IF gp = NotCalled \/ gp.raised THEN {NotCalled} ELSE ScoreOutcomes :
    \E r \in {judge(t, x, s, d, gp, cs)} :
       /\ result' = [op |-> "judge", test |-> t, arg |-> x, stop_on_error |-> s,
                     deep_error |-> d, gp |-> r.gp, cs |-> r.cs,
                     raw |-> PyNone, raised |-> r.raised, val |-> r.val]
       /\ last_model' = [last_model EXCEPT ![t] = r.last_model]
       /\ UNCHANGED <<author, heap, memo, cached_runs, py3, required_capabilities, score_type, observation,
                      suite, run, matrix>>

\* The raw values a score is constructed with.
RawValues ==
  {PyNone, PyBool(TRUE), PyStr("message"), ValueError("raw"),
   Exc("CapabilityError", <<"m1", "c2">>)}

\* cls(raw) for a Score class cls
CallScore ==
  \E cls \in ScoreClasses, raw \in RawValues :
    LET r == NewScore(cls, raw) IN
       /\ result' = [NoCall EXCEPT !.op = "Score", !.arg = cls, !.raw = raw,
                                   !.raised = r.raised, !.val = r.val]
       /\ UNCHANGED <<author, heap, memo, cached_runs, py3, required_capabilities, score_type, observation, last_model,
                      suite, run, matrix>>

\* What a test class declares as score_type: nothing ("None"), a class that
\* does not derive from Score ("int"), or a Score class.
DeclaredScoreTypes == {"None", "int", "Score", "BooleanScore", "NAScore"}

\* Outcomes of validate_observation(observation): the return value is not
\* used; an invalid observation raises ObservationError.
ValidateOutcomes == {Ret(PyBool(TRUE)), Raise(Exc("ObservationError", <<"invalid">>))}

\* Test.__init__ testing score_type against None only.
Test__init__none_only(name, obs, st, vo) ==
  IF vo.raised THEN vo
  ELSE IF st = "None"
  THEN Raise(Exc("Error", <<"does not specify a score type">>))
  ELSE Ret([py |-> "test",
            name |-> IF name = PyNone THEN PyStr("class name") ELSE name,
            observation |-> obs,
            score_type |-> st])

\* Test.__init__(observation, name) run on a new instance of a test class
\* that declares the score_type st and whose validate_observation does vo.
Test__init__(name, obs, st, vo) ==
  IF vo.raised THEN vo
  ELSE IF st = "None" \/ ~IsSubclass(st, "Score")
  THEN Raise(Exc("Error", <<"does not specify a score type">>))
  ELSE Ret([py |-> "test",
            name |-> IF name = PyNone THEN PyStr("class name") ELSE name,
            observation |-> obs,
            score_type |-> st])

\* TestClass(observation, name)
CallTest ==
  \E name \in {PyNone, PyStr("my_test")}, st \in DeclaredScoreTypes,
     vo \in ValidateOutcomes :
    LET r == Test__init__(name, Observation("o1"), st, vo) IN
       /\ result' = [NoCall EXCEPT !.op = "Test", !.arg = st,
                                   !.raw = [py |-> "args", name |-> name, validate |-> vo],
                                   !.raised = r.raised, !.val = r.val]
       /\ UNCHANGED <<author, heap, memo, cached_runs, py3, required_capabilities, score_type, observation, last_model,
                      suite, run, matrix>>

Next == CallCheckCapabilities \/ CallCheck \/ CallJudge \/ CallScore \/ CallTest

Spec == Init /\ [][Next]_vars

----------------------------------------------------------------------------
(* The state machine of a suite: a TestSuite is constructed of tests t1 and *)
(* t2, then its judge method is called; a call advances cell by cell.       *)

\* The tests arguments of TestSuite(name, tests).
TestArgs ==
  {PyRef(x) : x \in {"t1", "t2", "x1"}}
    \cup {PyList(l) : l \in UNION {[1..n -> {"t1", "t2", "x1"}] : n \in 0..MaxLen}}

\* The models arguments of suite.judge(models, stop_on_error).
ModelArgs ==
  {PyRef(x) : x \in {"m1", "m3", "x1"}}
    \cup {PyList(l) : l \in UNION {[1..n -> {"m1", "m3", "x1"}] : n \in 0..MaxLen}}

\* What the methods of t1 and t2 do when a suite calls them.
SuiteGenOutcomes == {Ret(Prediction("p1")), Raise(ValueError("generate_prediction"))}

SuiteScoreOutcomes ==
  {Score__init__("BooleanScore", PyBool(TRUE), PyNone),
   Score__init__("OtherScore", PyBool(TRUE), PyNone),
   Raise(ValueError("compute_score"))}

SuiteInit ==
  /\ py3 \in BOOLEAN
  /\ required_capabilities = [t \in SuiteTests |-> IF t = "t1" THEN <<"c1">> ELSE <<"c2">>]
  /\ score_type = [t \in SuiteTests |-> IF t = "t1" THEN "BooleanScore" ELSE "Score"]
  /\ observation = [t \in SuiteTests |-> Observation("o1")]
  /\ last_model = [t \in SuiteTests |-> NoAttr]
  /\ result = NoCall
  /\ suite = PyNone
  /\ run = NoRun
  /\ matrix = PyNone
  /\ author = PyNone /\ heap = PyNone /\ memo = PyNone /\ cached_runs = PyNone

\* TestSuite(name, tests), while no suite exists.
SuiteConstruct ==
  /\ suite = PyNone
  /\ \E name \in {PyNone, PyStr("suite")}, tests \in TestArgs :
       \E r \in {TestSuite__init__(name, tests)} :
          /\ result' = [NoCall EXCEPT !.op = "TestSuite",
                                      !.raw = [py |-> "args", name |-> name, tests |-> tests],
                                      !.raised = r.raised, !.val = r.val]
          /\ suite' = IF r.raised THEN suite ELSE r.val
  /\ UNCHANGED <<author, heap, memo, cached_runs, py3, required_capabilities, score_type, observation, last_model,
                 run, matrix>>

\* suite.judge(models, stop_on_error) up to its loops: the models are checked
\* and the matrix is built.  A call with no cell returns the matrix at once.
SuiteJudgeCall ==
  /\ suite # PyNone
  /\ run.pc # "running"
  /\ \E models \in ModelArgs, s \in BOOLEAN :
       \E ms \in {TestSuite_judge_models(models)} :
          IF ms.raised
          THEN /\ run' = [NoRun EXCEPT !.pc = "raised", !.arg = models,
                                       !.stop_on_error = s, !.val = ms.val]
               /\ UNCHANGED matrix
          ELSE /\ Len(suite.tests) * Len(ms.val) <= MaxCells
               /\ run' = [NoRun EXCEPT !.pc = IF Len(suite.tests) = 0 \/ Len(ms.val) = 0
                                              THEN "returned" ELSE "running",
                                       !.arg = models, !.stop_on_error = s,
                                       !.models = ms.val]
               /\ matrix' = ScoreMatrix__init__(suite.tests, ms.val)
  /\ UNCHANGED <<author, heap, memo, cached_runs, py3, required_capabilities, score_type, observation, last_model,
                 result, suite>>

\* One pass of the inner loop of suite.judge:
\* matrix[test, model] = test.judge(model, stop_on_error).  An exception ends
\* the call; after the last cell the call returns the matrix.
SuiteJudgeCell ==
  /\ run.pc = "running"
  /\ LET t == suite.tests[run.i]
         m == run.models[run.j]
     IN
     \E gp \in IF check_capabilities(t, m).raised THEN {NotCalled} ELSE SuiteGenOutcomes :
     \E cs \in IF gp = NotCalled \/ gp.raised THEN {NotCalled} ELSE SuiteScoreOutcomes :
     \E call \in {[test |-> t, model |-> m, stop_on_error |-> run.stop_on_error,
                   gp |-> gp, cs |-> cs]} :
     \E r \in {judge(t, m, run.stop_on_error, FALSE, gp, cs)} :
     \E w \in {IF r.raised THEN MatrixOutcome(r, matrix)
               ELSE ScoreMatrix__setitem__(matrix, PyTuple(<<t, m>>), r.val)} :
     \E next \in {judge_loop_next(run.i, run.j, Len(suite.tests), Len(run.models))} :
        /\ last_model' = [last_model EXCEPT ![t] = r.last_model]
        /\ matrix' = w.matrix
        /\ run' = IF w.raised
                  THEN [run EXCEPT !.pc = "raised", !.val = w.val,
                                   !.judged = Append(@, call)]
                  ELSE [run EXCEPT !.pc = IF next[1] > Len(suite.tests)
                                             \/ next[2] > Len(run.models)
                                          THEN "returned" ELSE "running",
                                   !.i = next[1], !.j = next[2],
                                   !.judged = Append(@, call),
                                   !.stored = Append(@, <<t, m>>)]
  /\ UNCHANGED <<author, heap, memo, cached_runs, py3, required_capabilities, score_type, observation, result, suite>>

SuiteNext == SuiteConstruct \/ SuiteJudgeCall \/ SuiteJudgeCell

SuiteSpec == SuiteInit /\ [][SuiteNext]_vars

----------------------------------------------------------------------------
(* The state machine of a matrix: a ScoreMatrix is constructed of tests and *)
(* models, then its cells are assigned and read.                            *)

\* The sequences of at most MaxLen items of a set.
SeqsOf(S) == UNION {[1..n -> S] : n \in 0..MaxLen}

\* The keys of matrix[key] and matrix[key] = value: pairs of a test and a
\* model, pairs holding another object, a triple, and single objects.
MatrixKeys ==
  {PyTuple(<<t, m>>) : t \in SuiteTests, m \in {"m1", "m3"}}
    \cup {PyTuple(<<"x1", "m1">>), PyTuple(<<"t1", "x1">>), PyTuple(<<"t1", "m1", "m1">>)}
    \cup {PyRef(x) : x \in {"t1", "m1", "x1"}}

\* The values of matrix[key] = value: two scores, and None.
MatrixValues ==
  {Score__init__("BooleanScore", PyBool(b), PyNone).val : b \in BOOLEAN} \cup {PyNone}

\* No method of ScoreMatrix depends on the interpreter.
MatrixInit ==
  /\ py3 = TRUE
  /\ required_capabilities = [t \in SuiteTests |-> IF t = "t1" THEN <<"c1">> ELSE <<"c2">>]
  /\ score_type = [t \in SuiteTests |-> IF t = "t1" THEN "BooleanScore" ELSE "Score"]
  /\ observation = [t \in SuiteTests |-> Observation("o1")]
  /\ last_model = [t \in SuiteTests |-> NoAttr]
  /\ result = NoCall
  /\ suite = PyNone
  /\ run = NoRun
  /\ author = PyNone /\ heap = PyNone /\ memo = PyNone /\ cached_runs = PyNone
  /\ \E tests \in SeqsOf(SuiteTests), models \in SeqsOf({"m1", "m3"}) :
        /\ Len(tests) * Len(models) <= MaxCells
        /\ matrix = ScoreMatrix__init__(tests, models)

\* matrix[key] = value
MatrixSetItem ==
  /\ \E key \in MatrixKeys, value \in MatrixValues :
       \E w \in {ScoreMatrix__setitem__(matrix, key, value)} :
          /\ result' = [NoCall EXCEPT !.op = "setitem",
                                      !.raw = [py |-> "args", key |-> key, value |-> value],
                                      !.raised = w.raised, !.val = w.val]
          /\ matrix' = w.matrix
  /\ UNCHANGED <<author, heap, memo, cached_runs, py3, required_capabilities, score_type, observation, last_model,
                 suite, run>>

\* matrix[key]
MatrixGetItem ==
  /\ \E key \in MatrixKeys :
       \E r \in {ScoreMatrix__getitem__(matrix, key)} :
          result' = [NoCall EXCEPT !.op = "getitem",
                                   !.raw = [py |-> "args", key |-> key, value |-> PyNone],
                                   !.raised = r.raised, !.val = r.val]
  /\ UNCHANGED <<author, heap, memo, cached_runs, py3, required_capabilities, score_type, observation, last_model,
                 suite, run, matrix>>

MatrixNext == MatrixSetItem \/ MatrixGetItem

MatrixSpec == MatrixInit /\ [][MatrixNext]_vars

----------------------------------------------------------------------------
(* TestSuite.from_observations, applied to the arguments drawn at the start. *)

PyInt(n) == [py |-> "int", v |-> n]

\* The classes given as first items: T1 and T2 are test classes, T3 is a
\* test class that declares no score_type, Model is a class but no test
\* class.
Class(name, is_test, st) ==
  [py |-> "class", name |-> name, is_test |-> is_test, score_type |-> st]

T1 == Class("T1", TRUE, "BooleanScore")
T2 == Class("T2", TRUE, "Score")
T3 == Class("T3", TRUE, "None")
ModelClass == Class("Model", FALSE, "None")

\* The tuples of tests_info: (class, observation), (class, observation,
\* third) with a name, None or a number as third item, and a tuple that is
\* too short.
TestInfos ==
  {PyTuple(<<c, Observation(o)>>) : c \in {T1, T2, T3, ModelClass}, o \in {"o1", "o2"}}
    \cup {PyTuple(<<c, Observation(o), n>>) :
            c \in {T1, T2}, o \in {"o1", "o2"}, n \in {PyStr("t1b"), PyNone, PyInt(3)}}
    \cup {PyTuple(<<T1>>)}

\* The instance number k of a test class, made by test_class(observation,
\* name=test_name): the new object as Test.__init__ leaves it.
NewTest(k, test_class, observation_, test_name) ==
  LET r == Test__init__(test_name, observation_, test_class.score_type,
                        Ret(PyBool(TRUE)))
  IN IF r.raised THEN r
     ELSE Ret([py |-> "test", id |-> k, cls |-> test_class.name,
               name |-> IF test_name = PyNone THEN PyStr(test_class.name)
                        ELSE r.val.name,
               observation |-> r.val.observation,
               score_type |-> r.val.score_type])

\* One pass of the loop of from_observations that takes no third item for
\* the name.
from_observations_item_unnamed(k, test_info) ==
  IF Len(test_info.items) < 2
  THEN Raise(Exc("IndexError", <<"tuple index out of range">>))
  ELSE LET test_class == test_info.items[1]
           observation_ == test_info.items[2]
       IN IF ~test_class.is_test
          THEN Raise(Exc("AssertionError",
                         <<"First item in each tuple must be a Test class">>))
          ELSE NewTest(k, test_class, observation_, PyNone)

\* One pass of the loop of from_observations, for the k-th tuple: the test
\* appended to tests, or the exception raised.
from_observations_item(k, test_info) ==
  IF Len(test_info.items) < 2
  THEN Raise(Exc("IndexError", <<"tuple index out of range">>))
  ELSE LET test_class == test_info.items[1]
           observation_ == test_info.items[2]
           test_name == IF Len(test_info.items) < 3 THEN PyNone ELSE test_info.items[3]
       IN IF ~test_class.is_test
          THEN Raise(Exc("AssertionError",
                         <<"First item in each tuple must be a Test class">>))
          ELSE IF test_name # PyNone /\ test_name.py # "str"
          THEN Raise(Exc("AssertionError", <<"Each test name must be a string">>))
          ELSE NewTest(k, test_class, observation_, test_name)

\* TestSuite.from_observations(name, tests_info): the first pass that
\* raises ends the call; otherwise cls(name, tests) is called with the list
\* of the tests made, all of them Tests.
from_observations(name, tests_info) ==
  LET made == [k \in 1..Len(tests_info) |-> from_observations_item(k, tests_info[k])]
      bad == {k \in 1..Len(tests_info) : made[k].raised}
  IN IF bad # {} THEN made[Min(bad)]
     ELSE IF name = PyNone THEN Raise(Exc("Error", <<"Suite name required.">>))
     ELSE Ret([py |-> "suite", name |-> name,
               tests |-> [k \in 1..Len(tests_info) |-> made[k].val]])

\* The arguments of the call are drawn at the start.
FromObsInit ==
  /\ py3 \in BOOLEAN
  /\ required_capabilities = [t \in Tests |-> <<>>]
  /\ score_type = [t \in Tests |-> "BooleanScore"]
  /\ observation = [t \in Tests |-> Observation("o1")]
  /\ last_model = [t \in Tests |-> NoAttr]
  /\ \E name \in {PyNone, PyStr("S")}, tests_info \in SeqsOf(TestInfos) :
        result = [NoCall EXCEPT !.op = "args",
                                !.raw = [py |-> "args", name |-> name,
                                         tests_info |-> tests_info]]
  /\ suite = PyNone
  /\ run = NoRun
  /\ matrix = PyNone
  /\ author = PyNone /\ heap = PyNone /\ memo = PyNone /\ cached_runs = PyNone

\* TestSuite.from_observations(name, tests_info)
CallFromObservations ==
  /\ result.op = "args"
  /\ \E r \in {from_observations(result.raw.name, result.raw.tests_info)} :
        /\ result' = [result EXCEPT !.op = "from_observations",
                                    !.raised = r.raised, !.val = r.val]
        /\ suite' = IF r.raised THEN suite ELSE r.val
  /\ UNCHANGED <<author, heap, memo, cached_runs, py3, required_capabilities,
                 score_type, observation, last_model, run, matrix>>

FromObsNext == CallFromObservations

FromObsSpec == FromObsInit /\ [][FromObsNext]_vars

----------------------------------------------------------------------------
(* Judging with pure author methods: what generate_prediction and          *)
(* compute_score of t1 do depends on the model only and is drawn at the    *)
(* start.                                                                  *)

PureModels == {"m1", "m3"}

\* No tolerant judge call was made on the model yet.
NotYet == [raised |-> FALSE, val |-> [py |-> "not_yet"]]

PureInit ==
  /\ py3 \in BOOLEAN
  /\ required_capabilities \in [Tests -> {<<>>, <<"c1">>}]
  /\ score_type \in [Tests -> TestScoreTypes]
  /\ observation = [t \in Tests |-> Observation("o1")]
  /\ last_model = [t \in Tests |-> NoAttr]
  /\ result = NoCall
  /\ suite = PyNone
  /\ run = NoRun
  /\ matrix = PyNone
  /\ \E gp \in [PureModels -> SuiteGenOutcomes], cs \in [PureModels -> SuiteScoreOutcomes] :
        author = [gp |-> gp, cs |-> cs,
                  first |-> [m \in PureModels |-> NotYet],
                  again |-> [m \in PureModels |-> FALSE]]
  /\ heap = PyNone /\ memo = PyNone /\ cached_runs = PyNone

\* Test.judge that answers from the state the last call left in the test.
PureOutcome_remembering(t, model, stop_on_error) ==
  IF last_model[t] = model
  THEN Outcome(TBDScore(PyNone), model, NotCalled, NotCalled)
  ELSE judge(t, model, stop_on_error, FALSE,
             IF check_capabilities(t, model).raised THEN NotCalled ELSE author.gp[model],
             IF check_capabilities(t, model).raised \/ author.gp[model].raised
             THEN NotCalled ELSE author.cs[model])

\* t.judge(model, stop_on_error) with the pure methods of the author: each
\* method, when the call reaches it, does what it does for this model.
PureOutcome(t, model, stop_on_error) ==
  judge(t, model, stop_on_error, FALSE,
        IF check_capabilities(t, model).raised THEN NotCalled ELSE author.gp[model],
        IF check_capabilities(t, model).raised \/ author.gp[model].raised
        THEN NotCalled ELSE author.cs[model])

\* t.judge(x, stop_on_error=s); the outcome of the first call with
\* stop_on_error=False on each model is kept for comparison.
PureJudge ==
  \E t \in Tests, x \in PureModels, s \in BOOLEAN :
    \E r \in {PureOutcome(t, x, s)} :
       /\ result' = [op |-> "judge", test |-> t, arg |-> x, stop_on_error |-> s,
                     deep_error |-> FALSE, gp |-> r.gp, cs |-> r.cs,
                     raw |-> PyNone, raised |-> r.raised, val |-> r.val]
       /\ last_model' = [last_model EXCEPT ![t] = r.last_model]
       /\ author' = IF s THEN author
                    ELSE IF author.first[x] = NotYet
                    THEN [author EXCEPT !.first[x] = [raised |-> r.raised, val |-> r.val]]
                    ELSE [author EXCEPT !.again[x] = TRUE]
       /\ UNCHANGED <<heap, memo, cached_runs, py3, required_capabilities, score_type,
                      observation, suite, run, matrix>>

PureNext == PureJudge

PureSpec == PureInit /\ [][PureNext]_vars

----------------------------------------------------------------------------
(* The related_data of scores: scores are constructed without related_data, *)
(* and entries are added to the related_data of any of them.                *)

\* The dict object a new score holds as related_data: the dict made by
\* Score.__init__ for this score (the k-th constructed), or the dict that is
\* the default value of the related_data parameter of a class's __init__,
\* made once when the function was defined.
DictOf(k, related_data) ==
  IF related_data = FreshDict
  THEN [kind |-> "new", k |-> k, cls |-> "none"]
  ELSE [kind |-> "default", k |-> 0, cls |-> related_data.ref]

\* The keys of the entries added.
DataKeys == {"k1", "k2"}

\* The raw values the scores are constructed with.
DataRaws == {PyNone, ValueError("raw")}

\* The entries of a dict object.
Contents(dict) == {e[2] : e \in {e \in heap.entries : e[1] = dict}}

DataInit ==
  /\ py3 \in BOOLEAN
  /\ required_capabilities = [t \in Tests |-> <<>>]
  /\ score_type = [t \in Tests |-> "BooleanScore"]
  /\ observation = [t \in Tests |-> Observation("o1")]
  /\ last_model = [t \in Tests |-> NoAttr]
  /\ result = NoCall
  /\ suite = PyNone
  /\ run = NoRun
  /\ matrix = PyNone
  /\ author = PyNone
  /\ heap = [scores |-> <<>>, entries |-> {}]
  /\ memo = PyNone /\ cached_runs = PyNone

\* cls(raw), with no related_data given.
DataConstruct ==
  /\ Len(heap.scores) < MaxScores
  /\ \E cls \in ScoreClasses, raw \in DataRaws :
       \E r \in {NewScore(cls, raw)} :
          /\ ~r.raised
          /\ result' = [NoCall EXCEPT !.op = "Score", !.arg = cls, !.raw = raw,
                                      !.raised = r.raised, !.val = r.val]
          /\ heap' = [heap EXCEPT !.scores =
                        Append(@, [cls |-> r.val.cls,
                                   related_data |->
                                     DictOf(Len(heap.scores) + 1, r.val.related_data),
                                   added |-> {}])]
  /\ UNCHANGED <<author, memo, cached_runs, py3, required_capabilities, score_type,
                 observation, last_model, suite, run, matrix>>

\* score.related_data[key] = value, for the k-th score constructed.
DataAdd ==
  /\ \E k \in 1..Len(heap.scores), key \in DataKeys :
        heap' = [heap EXCEPT !.scores[k].added = @ \cup {key},
                             !.entries = @ \cup {<<heap.scores[k].related_data, key>>}]
  /\ UNCHANGED <<author, memo, cached_runs, py3, required_capabilities, score_type,
                 observation, last_model, result, suite, run, matrix>>

DataNext == DataConstruct \/ DataAdd

DataSpec == DataInit /\ [][DataNext]_vars

----------------------------------------------------------------------------
(* memoize and fn_arg_hash_function (src/sciunit/utils.py): a function is  *)
(* wrapped by memoize and the wrapper is called.                           *)

\* The functions wrapped: def f(a, b=0) and def g(a, **kwargs).  params are
\* the named parameters in order, of which the last ndefaults have the
\* default value 0.  Neither takes *args.
Fn(params, ndefaults, has_kwargs) ==
  [params |-> params, ndefaults |-> ndefaults, has_kwargs |-> has_kwargs]

MemoFns == {Fn(<<"a", "b">>, 1, FALSE), Fn(<<"a">>, 0, TRUE)}

\* The argument values, all hashable, and the names of keyword arguments.
ArgValues == {-2, -1, 1}
KwNames == {"a", "b"}
DefaultValue == 0

\* hash(v) of an int in CPython: -1 is never a hash value.
hash(v) == IF v = -1 THEN -2 ELSE v

\* The values the hash function yields: the hash of an argument, and the
\* hash of the frozenset of the **kwargs items, which is computed from the
\* names and the hashes of the values.
HashOfInt(v) == [kind |-> "int", v |-> hash(v), items |-> {}]
HashOfItems(items) ==
  [kind |-> "frozenset", v |-> 0, items |-> {<<e[1], hash(e[2])>> : e \in items}]

\* A call f(*args, **kwargs): kwargs is the set of its (name, value) items.
Call(args, kwargs) == [py |-> "call", args |-> args, kwargs |-> kwargs]

KwHas(kwargs, name) == \E e \in kwargs : e[1] = name
KwGet(kwargs, name) == (CHOOSE e \in kwargs : e[1] = name)[2]

\* fn_kwargs(fn): the names of the parameters that have a default.
fn_kwargs(fn) ==
  {fn.params[i] : i \in (Len(fn.params) - fn.ndefaults + 1)..Len(fn.params)}

\* fn_available_argcount(fn)
fn_available_argcount(fn) == Len(fn.params)

\* The orders in which iterating over a set can yield its elements.
Orders(S) == {o \in [1..Cardinality(S) -> S] : Range(o) = S}

\* Whether Python accepts the call of fn: no positional argument too many,
\* no parameter given twice, no unknown keyword unless fn takes **kwargs,
\* no parameter without default left out.
Accepts(fn, call) ==
  /\ Len(call.args) <= Len(fn.params)
  /\ \A e \in call.kwargs :
        IF e[1] \in Range(fn.params)
        THEN \E i \in 1..Len(fn.params) : fn.params[i] = e[1] /\ i > Len(call.args)
        ELSE fn.has_kwargs
  /\ \A i \in 1..Len(fn.params) :
        \/ i <= Len(call.args)
        \/ KwHas(call.kwargs, fn.params[i])
        \/ fn.params[i] \in fn_kwargs(fn)

\* fn(*args, **kwargs) of the wrapped function, which is pure: it returns
\* the values its parameters are bound to, so that calls with different
\* arguments return different values.
CallFn(fn, call) ==
  IF ~Accepts(fn, call) THEN Raise(Exc("TypeError", <<"arguments">>))
  ELSE Ret([py |-> "bound",
            params |-> {<<fn.params[i],
                          IF i <= Len(call.args) THEN call.args[i]
                          ELSE IF KwHas(call.kwargs, fn.params[i])
                          THEN KwGet(call.kwargs, fn.params[i])
                          ELSE DefaultValue>> : i \in 1..Len(fn.params)},
            kwargs |-> {e \in call.kwargs : e[1] \notin Range(fn.params)}])

\* hash_(*args, **kwargs) of the function made by fn_arg_hash_function(fn),
\* where order is the order in which the set explicit_kwarg_args iterates:
\* the tuple of what _hashes yields.
hash_(fn, order, call) ==
  LET args == call.args
      kwargs == call.kwargs
      explicit_kwarg_args == fn_kwargs(fn)
      n_explicit_args == fn_available_argcount(fn) - Cardinality(explicit_kwarg_args)
      n_explicit_args_ == Min({Len(args), n_explicit_args})
      explicit == [i \in 1..n_explicit_args_ |-> HashOfInt(args[i])]
      defaulted == [j \in 1..Len(order) |->
                      IF Len(args) >= n_explicit_args_ + j
                      THEN HashOfInt(args[n_explicit_args_ + j])
                      ELSE IF KwHas(kwargs, order[j])
                      THEN HashOfInt(KwGet(kwargs, order[j]))
                      ELSE HashOfInt(DefaultValue)]
      rest == IF fn.has_kwargs
              THEN <<HashOfItems({e \in kwargs : e[1] \notin explicit_kwarg_args})>>
              ELSE <<>>
  IN explicit \o defaulted \o rest

\* The calls of a function that Python accepts.
Calls(fn) ==
  {c \in {Call(args, kwargs) :
            args \in UNION {[1..n -> ArgValues] : n \in 0..Len(fn.params)},
            kwargs \in {k \in SUBSET (KwNames \X ArgValues) :
                          \A e1, e2 \in k : e1[1] = e2[1] => e1 = e2}} :
     Accepts(fn, c)}

\* cache[hash_], when the key is there.
CacheHas(cache, key) == \E e \in cache : e.key = key
CacheGet(cache, key) == (CHOOSE e \in cache : e.key = key).val

\* decorated(*args, **kwargs) of memoize(fn): the value returned and the
\* cache afterwards.
decorated(fn, order, cache, call) ==
  LET key == hash_(fn, order, call)
  IN IF CacheHas(cache, key)
     THEN [raised |-> FALSE, val |-> CacheGet(cache, key), cache |-> cache]
     ELSE LET return_val == CallFn(fn, call)
          IN IF return_val.raised
             THEN [raised |-> TRUE, val |-> return_val.val, cache |-> cache]
             ELSE [raised |-> FALSE, val |-> return_val.val,
                   cache |-> cache \cup {[key |-> key, val |-> return_val.val]}]

\* memoize(fn): an empty cache and the hash function of fn.
MemoInit ==
  /\ py3 = TRUE
  /\ required_capabilities = [t \in Tests |-> <<>>]
  /\ score_type = [t \in Tests |-> "BooleanScore"]
  /\ observation = [t \in Tests |-> Observation("o1")]
  /\ last_model = [t \in Tests |-> NoAttr]
  /\ result = NoCall
  /\ suite = PyNone
  /\ run = NoRun
  /\ matrix = PyNone
  /\ author = PyNone /\ heap = PyNone
  /\ \E fn \in MemoFns :
     \E order \in Orders(fn_kwargs(fn)) :
        memo = [fn |-> fn, order |-> order, cache |-> {}]
  /\ cached_runs = PyNone

\* A call of the wrapper; the cache holds at most MaxCache values.
MemoCall ==
  /\ \E call \in Calls(memo.fn) :
       \E r \in {decorated(memo.fn, memo.order, memo.cache, call)} :
          /\ Cardinality(r.cache) <= MaxCache
          /\ result' = [NoCall EXCEPT !.op = "memoized", !.raw = call,
                                      !.raised = r.raised, !.val = r.val]
          /\ memo' = [memo EXCEPT !.cache = r.cache]
  /\ UNCHANGED <<author, heap, cached_runs, py3, required_capabilities, score_type,
                 observation, last_model, suite, run, matrix>>

MemoNext == MemoCall

MemoSpec == MemoInit /\ [][MemoNext]_vars

----------------------------------------------------------------------------
(* method_cache(by='value') (src/sciunit/utils.py): two models of one      *)
(* class that has a method decorated with it, which is called with run     *)
(* arguments.                                                              *)

CachedModels == {"a", "b"}

\* The run arguments given to the decorated method as run={...}.
RunArgs == {"x1", "x2"}

\* What run(**args) of the class does with its results: it stores them in
\* the public attribute results, or in the private attribute _results.
RunKinds == {"public", "private"}

Absent == "absent"

\* model.__dict__ of a new model: neither attribute exists.
NewDict == [results |-> Absent, _results |-> Absent]

\* model.run(**args): the model's __dict__ afterwards.
ModelRun(kind, dict, args) ==
  IF kind = "public" THEN [dict EXCEPT !.results = args]
  ELSE [dict EXCEPT !._results = args]

\* dict_hash({'attrs': model_dict, 'args': method_args}), where model_dict
\* holds the attributes whose name does not start with an underscore: equal
\* for equal dicts, and taken to differ for different ones.
method_signature(dict, args) == [attrs |-> [results |-> dict.results], args |-> args]

\* model.__dict__.update(attrs): every attribute of attrs is set.
DictUpdate(dict, attrs) ==
  [k \in DOMAIN dict |-> IF attrs[k] # Absent THEN attrs[k] ELSE dict[k]]

\* decorate(model, run=args) up to the call of the decorated function: the
\* model's __dict__ and the class's cached_runs afterwards, and whether run
\* was executed.
decorate(kind, dict, cache, args) ==
  LET signature == method_signature(dict, args)
  IN IF ~\E e \in cache : e.key = signature
     THEN LET ran == ModelRun(kind, dict, args)
          IN [dict |-> ran, cache |-> cache \cup {[key |-> signature, attrs |-> ran]},
              ran |-> TRUE]
     ELSE [dict |-> DictUpdate(dict, (CHOOSE e \in cache : e.key = signature).attrs),
           cache |-> cache, ran |-> FALSE]

CachedInit ==
  /\ py3 = TRUE
  /\ required_capabilities = [t \in Tests |-> <<>>]
  /\ score_type = [t \in Tests |-> "BooleanScore"]
  /\ observation = [t \in Tests |-> Observation("o1")]
  /\ last_model = [t \in Tests |-> NoAttr]
  /\ result = NoCall
  /\ suite = PyNone
  /\ run = NoRun
  /\ matrix = PyNone
  /\ author = PyNone /\ heap = PyNone /\ memo = PyNone
  /\ \E kind \in RunKinds :
        cached_runs = [kind |-> kind,
                       dict |-> [m \in CachedModels |-> NewDict],
                       cache |-> {},
                       runs |-> [m \in CachedModels |-> [a \in RunArgs |-> 0]],
                       recorded |-> [m \in CachedModels |-> [a \in RunArgs |-> NewDict]]]

\* model.method(run=args) of the decorated method; runs counts the
\* executions of run per model and arguments, recorded keeps the model's
\* __dict__ after the first of them.
CachedCall ==
  /\ \E m \in CachedModels, args \in RunArgs :
       \E r \in {decorate(cached_runs.kind, cached_runs.dict[m], cached_runs.cache, args)} :
          /\ result' = [NoCall EXCEPT !.op = "method_cache", !.arg = m,
                                      !.raw = [py |-> "args", run |-> args,
                                               ran |-> r.ran]]
          /\ cached_runs' =
               [cached_runs EXCEPT
                  !.dict[m] = r.dict,
                  !.cache = r.cache,
                  !.runs[m][args] = IF r.ran THEN @ + 1 ELSE @,
                  !.recorded[m][args] =
                     IF r.ran /\ cached_runs.runs[m][args] = 0 THEN r.dict ELSE @]
  /\ UNCHANGED <<author, heap, memo, py3, required_capabilities, score_type,
                 observation, last_model, suite, run, matrix>>

CachedNext == CachedCall

CachedSpec == CachedInit /\ [][CachedNext]_vars

----------------------------------------------------------------------------
(* Properties of the judging protocol.                                     *)

\* The declared capabilities of t that the model m does not satisfy, by
\* position in required_capabilities.
Unsatisfied(t, m) ==
  {i \in 1..Len(required_capabilities[t]) : required_capabilities[t][i] \notin ModelBases[m]}

Lacking(t, m) == IsModel(m) /\ Unsatisfied(t, m) # {}

Satisfying(t, m) == IsModel(m) /\ Unsatisfied(t, m) = {}

\* The first capability, in declared order, that m does not satisfy.
FirstUnsatisfied(t, m) ==
  LET i == CHOOSE k \in Unsatisfied(t, m) : \A j \in 1..(k - 1) : j \notin Unsatisfied(t, m)
  IN required_capabilities[t][i]

\* The last call was t.judge(...).
Judged == result.op = "judge"

\* In the last judge call generate_prediction or compute_score raised.
AuthorRaised == Judged /\ (result.gp.raised \/ result.cs.raised)

\* The exception that generate_prediction or compute_score raised.
AuthorException == IF result.gp.raised THEN result.gp.val ELSE result.cs.val

\* In the last judge call compute_score returned a value.
Computed == Judged /\ result.cs # NotCalled /\ ~result.cs.raised

\* The value that compute_score returned is an instance of the score_type.
ComputedOfType ==
  /\ Computed
  /\ result.cs.val.py = "score"
  /\ IsSubclass(result.cs.val.cls, score_type[result.test])

\* The last call returned a score object of class cls (or of a subclass).
Returned(cls) ==
  /\ ~result.raised
  /\ result.val.py = "score"
  /\ IsSubclass(result.val.cls, cls)

\* The last call raised the exception e.
Raised(e) == result.raised /\ result.val = e

\* C1: judge of a Model that fails a required capability, with deep_error
\* false, raises nothing and returns an NAScore, whatever stop_on_error is.
C1_MismatchReturnsNAScore ==
  (Judged /\ ~result.deep_error /\ Lacking(result.test, result.arg))
    => Returned("NAScore")

\* C2: when generate_prediction or compute_score raises an exception X that is
\* no capability error, judge with stop_on_error and deep_error false raises
\* nothing and returns an ErrorScore whose score is X.
C2_ErrorScoreWrapsException ==
  (AuthorRaised /\ AuthorException.cls # "CapabilityError"
     /\ ~result.stop_on_error /\ ~result.deep_error)
    => /\ Returned("ErrorScore")
       /\ result.val.cls = "ErrorScore"
       /\ result.val.score = AuthorException

C2_Witness ==
  /\ Judged /\ ~result.stop_on_error /\ ~result.deep_error
  /\ result.gp = Raise(ValueError("generate_prediction"))
  /\ Returned("ErrorScore")

\* C3: when generate_prediction or compute_score raises an exception X that is
\* no capability error, judge with stop_on_error true and deep_error false
\* returns no score and raises X.
C3_StopOnErrorRaisesException ==
  (AuthorRaised /\ AuthorException.cls # "CapabilityError"
     /\ result.stop_on_error /\ ~result.deep_error)
    => Raised(AuthorException)

C3_Witness ==
  /\ Judged /\ result.stop_on_error /\ ~result.deep_error
  /\ result.cs = Raise(ValueError("compute_score"))
  /\ Raised(ValueError("compute_score"))

\* C4: a value that judge returns under stop_on_error false is an instance of
\* the test's score_type, an NAScore or an ErrorScore.
C4_ReturnedScoreTypes ==
  (Judged /\ ~result.stop_on_error /\ ~result.raised)
    => \/ Returned(score_type[result.test])
       \/ Returned("NAScore")
       \/ Returned("ErrorScore")

C4_Witness ==
  /\ Judged /\ ~result.stop_on_error /\ ~result.raised
  /\ score_type[result.test] = "BooleanScore"
  /\ Computed /\ result.cs.val.py = "score" /\ result.cs.val.cls = "OtherScore"
  /\ Returned("ErrorScore")

\* C5: on the success path (capability gate passed, generate_prediction
\* returned P, compute_score returned a score of score_type) the score that
\* judge returns has model M, test T, prediction P and observation
\* T.observation; a score off that path has test and model unset.
C5_MetadataOnlyOnSuccess ==
  /\ (ComputedOfType /\ ~result.raised)
       => /\ result.val.model = PyRef(result.arg)
          /\ result.val.test = PyRef(result.test)
          /\ result.val.prediction = result.gp.val
          /\ result.val.observation = observation[result.test]
  /\ (~ComputedOfType /\ ~result.raised /\ result.val.py = "score")
       => /\ result.val.test = PyNone
          /\ result.val.model = PyNone
  /\ (Computed /\ result.cs.val.py = "score")
       => /\ result.cs.val.test = PyNone
          /\ result.cs.val.model = PyNone

C5_Witness ==
  /\ ComputedOfType /\ ~result.raised
  /\ result.val.model = PyRef("m2") /\ result.val.test = PyRef("t1")
  /\ result.val.prediction = Prediction("p1")

\* C6: when compute_score returns a value that is no instance of score_type,
\* judge with deep_error false returns an ErrorScore wrapping an invalid-score
\* error under stop_on_error false, and raises that error under stop_on_error
\* true.
C6_InvalidScoreRouted ==
  (Computed /\ ~ComputedOfType /\ ~result.deep_error)
    => IF result.stop_on_error
       THEN result.raised /\ result.val.py = "exc" /\ result.val.cls = "InvalidScoreError"
       ELSE /\ Returned("ErrorScore")
            /\ result.val.cls = "ErrorScore"
            /\ result.val.score.py = "exc"
            /\ result.val.score.cls = "InvalidScoreError"

C6_Witness ==
  /\ Computed /\ ~ComputedOfType /\ ~result.deep_error /\ ~result.stop_on_error
  /\ result.cs = Ret(PyBool(TRUE))
  /\ Returned("ErrorScore")

\* C7, as stated: the error of a compute_score that returned the wrong score
\* class is raised to the caller of judge under every combination of
\* stop_on_error and deep_error, never converted to a score.
C7_InvalidScoreAlwaysRaised ==
  (Computed /\ ~ComputedOfType)
    => result.raised /\ result.val.py = "exc" /\ result.val.cls = "InvalidScoreError"

\* C7, amended: that error is raised to the caller of judge exactly when
\* stop_on_error or deep_error is true; with both false judge returns it
\* wrapped in an ErrorScore.
C7_InvalidScoreRaisedUnlessTolerated ==
  (Computed /\ ~ComputedOfType)
    => /\ (result.stop_on_error \/ result.deep_error)
            <=> (result.raised /\ result.val.py = "exc"
                   /\ result.val.cls = "InvalidScoreError")
       /\ (~result.stop_on_error /\ ~result.deep_error)
            <=> (Returned("ErrorScore") /\ result.val.score.py = "exc"
                   /\ result.val.score.cls = "InvalidScoreError")

C7_Witness ==
  /\ Computed /\ ~ComputedOfType
  /\ result.deep_error /\ ~result.stop_on_error
  /\ result.raised /\ result.val.py = "exc" /\ result.val.cls = "InvalidScoreError"

\* C8: with deep_error true every exception raised inside the judging steps
\* leaves judge unchanged, for both values of stop_on_error; a Model lacking a
\* required capability makes judge raise the capability error carrying that
\* model and that capability.
C8_DeepErrorPropagates ==
  /\ (AuthorRaised /\ result.deep_error) => Raised(AuthorException)
  /\ (Judged /\ result.deep_error /\ Lacking(result.test, result.arg))
       => Raised(Exc("CapabilityError",
                     <<result.arg, FirstUnsatisfied(result.test, result.arg)>>))

\* C9: check_capabilities(M) returns true iff the Model M satisfies every
\* required capability; otherwise it raises the capability error of M and of
\* the first unsatisfied capability in declared order; it never returns false.
C9_CheckCapabilities ==
  (result.op = "check_capabilities" /\ IsModel(result.arg))
    => IF Satisfying(result.test, result.arg)
       THEN ~result.raised /\ result.val = PyBool(TRUE)
       ELSE Raised(Exc("CapabilityError",
                       <<result.arg, FirstUnsatisfied(result.test, result.arg)>>))

\* C10: check(M, stop_on_error = False) returns a TBDScore of raw value None
\* when M satisfies every required capability, and an NAScore of raw value
\* None when the Model M lacks one.
C10_CheckReturnsTBDOrNA ==
  (result.op = "check" /\ ~result.stop_on_error /\ IsModel(result.arg))
    => IF Satisfying(result.test, result.arg)
       THEN Returned("TBDScore") /\ result.val.score = PyNone
       ELSE Returned("NAScore") /\ result.val.score = PyNone

\* C11: check(x, stop_on_error = False) never raises; when the capability
\* check raises an exception E, check returns an ErrorScore whose score is E,
\* and raises E only when stop_on_error is true.
C11_CheckWrapsException ==
  (result.op = "check")
    => LET cc == check_capabilities(result.test, result.arg)
       IN /\ ~result.stop_on_error => ~result.raised
          /\ (cc.raised /\ ~result.stop_on_error)
               => /\ Returned("ErrorScore")
                  /\ result.val.cls = "ErrorScore"
                  /\ result.val.score = cc.val
          /\ (cc.raised /\ result.stop_on_error) => Raised(cc.val)

----------------------------------------------------------------------------
(* Properties of the Score constructors.                                   *)

\* The last call constructed a score: cls(raw) with cls = result.arg and
\* raw = result.raw.
Constructed == result.op = "Score"

NoneScoreFamily == {"NoneScore", "TBDScore", "NAScore"}

\* C12: constructing Score or any of its subtypes with an exception as the
\* raw value yields an object of effective type ErrorScore whose score is
\* that exception.
C12_ExceptionReclassified ==
  (Constructed /\ result.raw.py = "exc")
    => /\ ~result.raised
       /\ result.val.py = "score"
       /\ result.val.cls = "ErrorScore"
       /\ result.val.score = result.raw

C12_Witness ==
  /\ Constructed /\ result.arg = "BooleanScore" /\ result.raw = ValueError("raw")
  /\ ~result.raised /\ result.val.cls = "ErrorScore"

\* C13: constructing NoneScore, TBDScore or NAScore with a raw value that is
\* neither None nor an exception fails with an invalid-score error.
C13_NoneScoreRejectsValue ==
  (Constructed /\ result.arg \in NoneScoreFamily
     /\ result.raw.py # "exc" /\ result.raw # PyNone)
    => /\ result.raised
       /\ result.val.py = "exc"
       /\ result.val.cls = "InvalidScoreError"

C13_Witness ==
  /\ Constructed /\ result.arg = "TBDScore" /\ result.raw = PyStr("message")
  /\ result.raised /\ result.val.cls = "InvalidScoreError"

----------------------------------------------------------------------------
(* Properties of Test.__init__.                                            *)

----------------------------------------------------------------------------
(* Properties of TestSuite, under SuiteSpec.                               *)

\* The argument is neither one object of the kind asked for nor a list of
\* such objects.
InvalidArg(a, IsKind(_)) ==
  \/ a.py = "object" /\ ~IsKind(a.id)
  \/ a.py = "list" /\ \E i \in 1..Len(a.items) : ~IsKind(a.items[i])

\* The last call was TestSuite(name, tests).
SuiteConstructed == result.op = "TestSuite"

\* C15: after a successful construction suite.tests is a sequence of Tests,
\* of one element when the argument was a single Test; a construction with a
\* list holding a non-Test, or with an object that is neither a Test nor
\* iterable, raises Error and no suite exists.
C15_SuiteTestsAreTests ==
  /\ suite # PyNone => \A i \in 1..Len(suite.tests) : IsTest(suite.tests[i])
  /\ (SuiteConstructed /\ ~result.raised)
       => /\ suite = result.val
          /\ result.raw.tests.py = "object" => suite.tests = <<result.raw.tests.id>>
          /\ result.raw.tests.py = "list" => suite.tests = result.raw.tests.items
  /\ (SuiteConstructed /\ InvalidArg(result.raw.tests, IsTest))
       => /\ result.raised
          /\ result.val.py = "exc"
          /\ result.val.cls = "Error"
          /\ suite = PyNone

C15_Witness ==
  /\ SuiteConstructed /\ result.raw.tests = PyList(<<"t1", "x1">>)
  /\ result.raw.name # PyNone
  /\ result.raised /\ result.val.cls = "Error" /\ suite = PyNone

\* C16: suite.judge(models) raises Error when models is neither a single
\* Model nor an iterable of Models, before any cell is judged: the call has
\* made no test.judge call (so no generate_prediction and no compute_score),
\* has stored nothing, and leaves every test's last_model and the matrix of
\* an earlier call as they were.
C16_InvalidModelsFailFirst ==
  [][(run.pc # "running" /\ run' # run /\ InvalidArg(run'.arg, IsModel))
       => /\ run'.pc = "raised"
          /\ run'.val.py = "exc"
          /\ run'.val.cls = "Error"
          /\ run'.judged = <<>>
          /\ run'.stored = <<>>
          /\ last_model' = last_model
          /\ matrix' = matrix]_vars

C16_Witness ==
  /\ run.pc = "raised" /\ run.arg = PyList(<<"m1", "x1">>)
  /\ run.val.py = "exc" /\ run.val.cls = "Error"
  /\ run.judged = <<>>
  /\ \E t \in SuiteTests : last_model[t] # NoAttr

\* How often the cell of test t and model m was stored by the call.
Written(t, m) == Cardinality({k \in 1..Len(run.stored) : run.stored[k] = <<t, m>>})

\* At how many positions of the sequence x stands.
Occurrences(seq, x) == Cardinality({k \in 1..Len(seq) : seq[k] = x})

\* C17 as stated: when suite.judge returns the matrix, every cell of a test
\* of the suite and a model of the call holds a Score and was written
\* exactly once during the call.
C17_EachCellWrittenOnce ==
  run.pc = "returned"
    => \A t \in Range(suite.tests), m \in Range(run.models) :
          /\ IsScore(matrix._matrix[t][m])
          /\ Written(t, m) = 1

\* C17 amended: when suite.judge returns the matrix, every cell of a test of
\* the suite and a model of the call holds a Score, and was written once for
\* every pair of a position of the test in suite.tests and a position of the
\* model in models: exactly once when neither sequence repeats an element.
C17_EachCellWrittenPerPosition ==
  run.pc = "returned"
    => /\ matrix.tests = suite.tests /\ matrix.models = run.models
       /\ Len(run.stored) = Len(suite.tests) * Len(run.models)
       /\ \A t \in Range(suite.tests), m \in Range(run.models) :
             /\ IsScore(matrix._matrix[t][m])
             /\ Written(t, m) = Occurrences(suite.tests, t) * Occurrences(run.models, m)

C17_Witness ==
  /\ run.pc = "returned"
  /\ suite.tests = <<"t1", "t2">> /\ run.models = <<"m1", "m1">>
  /\ Written("t1", "m1") = 2 /\ Written("t2", "m1") = 2
  /\ IsScore(matrix._matrix["t2"]["m1"])

\* C18: with stop_on_error=False no failure in a cell ends the call: the
\* only exception suite.judge raises is the one for invalid models, raised
\* before the first cell.
C18_FailureDoesNotStopRun ==
  (run.pc = "raised" /\ ~run.stop_on_error) => run.judged = <<>>

\* C19: the test.judge calls of suite.judge are made in row-major order, the
\* k-th call for test ((k-1) div n) + 1 of the suite and model ((k-1) mod n)
\* + 1 of the n models, each with the stop_on_error of the call, and every
\* result is stored in its cell before the next call is made.
C19_RowMajorOrder ==
  LET n == Len(run.models)
  IN /\ \A k \in 1..Len(run.judged) :
          /\ run.judged[k].test = suite.tests[((k - 1) \div n) + 1]
          /\ run.judged[k].model = run.models[((k - 1) % n) + 1]
          /\ run.judged[k].stop_on_error = run.stop_on_error
     /\ \A k \in 1..Len(run.stored) :
          run.stored[k] = <<run.judged[k].test, run.judged[k].model>>
     /\ Len(run.stored) <= Len(run.judged)
     /\ Len(run.judged) <= Len(run.stored) + 1
     /\ Len(run.judged) > Len(run.stored) => run.pc = "raised"
     /\ run.pc = "running"
          => Len(run.judged) = (run.i - 1) * n + (run.j - 1)

C19_Witness ==
  /\ suite # PyNone /\ suite.tests = <<"t1", "t2">>
  /\ run.models = <<"m1", "m3">>
  /\ Len(run.judged) = 4 /\ Len(run.stored) >= 3

----------------------------------------------------------------------------
(* Properties of ScoreMatrix, under MatrixSpec.                            *)

\* The keys (t, m) of the cells the matrix was constructed with.
ConstructedCells ==
  {PyTuple(<<t, m>>) : t \in Range(matrix.tests), m \in Range(matrix.models)}

\* The step is matrix[key] = value for this key.
Assigns(key) == result'.op = "setitem" /\ result'.raw.key = key

\* C20: for every cell (t, m) the matrix was constructed with and every
\* Score s, matrix[t, m] = s succeeds and matrix[t, m] then reads s; no
\* other step (a read, a refused assignment, an assignment to another cell)
\* changes what matrix[t, m] reads, and a read returns what the cell holds.
C20_RoundTrip ==
  [][\A key \in ConstructedCells :
        /\ (Assigns(key) /\ IsScore(result'.raw.value))
             => /\ ~result'.raised
                /\ ScoreMatrix__getitem__(matrix', key) = Ret(result'.raw.value)
        /\ ~(Assigns(key) /\ ~result'.raised)
             => ScoreMatrix__getitem__(matrix', key) = ScoreMatrix__getitem__(matrix, key)
        /\ (result'.op = "getitem" /\ result'.raw.key = key)
             => /\ ~result'.raised
                /\ Ret(result'.val) = ScoreMatrix__getitem__(matrix, key)]_vars

\* A cell was assigned one score, then another, and the last call read it.
C20_Witness ==
  LET key == PyTuple(<<"t2", "m3">>)
      s == Score__init__("BooleanScore", PyBool(FALSE), PyNone).val
  IN /\ key \in ConstructedCells
     /\ result.op = "getitem" /\ result.raw.key = key
     /\ ~result.raised /\ result.val = s
     /\ ScoreMatrix__getitem__(matrix, PyTuple(<<"t1", "m3">>))
          = Score__init__("BooleanScore", PyBool(TRUE), PyNone)

\* The last call was matrix[key] for this key.
Read(key) == result.op = "getitem" /\ result.raw.key = key

\* What matrix[t, m] reads.
Cell(t, m) == ScoreMatrix__getitem__(matrix, PyTuple(<<t, m>>)).val

\* C21: for a test t the matrix was constructed with, matrix[t] is a tuple
\* with one entry per model, the j-th being matrix[t, models[j]]; for a
\* model m it was constructed with, matrix[m] is a tuple with one entry per
\* test, the i-th being matrix[tests[i], m]; tests and models are the
\* sequences given at construction.
C21_RowAndColumnReads ==
  /\ \A t \in Range(matrix.tests) :
        LET row == PyTuple([j \in 1..Len(matrix.models) |-> Cell(t, matrix.models[j])])
        IN /\ ScoreMatrix__getitem__(matrix, PyRef(t)) = Ret(row)
           /\ Len(row.items) = Len(matrix.models)
           /\ Read(PyRef(t)) => ~result.raised /\ result.val = row
  /\ \A m \in Range(matrix.models) :
        LET column == PyTuple([i \in 1..Len(matrix.tests) |-> Cell(matrix.tests[i], m)])
        IN /\ ScoreMatrix__getitem__(matrix, PyRef(m)) = Ret(column)
           /\ Len(column.items) = Len(matrix.tests)
           /\ Read(PyRef(m)) => ~result.raised /\ result.val = column

C21_Witness ==
  /\ matrix.tests = <<"t2", "t1">> /\ matrix.models = <<"m1", "m3">>
  /\ Read(PyRef("m1")) /\ ~result.raised
  /\ Len(result.val.items) = 2
  /\ IsScore(result.val.items[1]) /\ result.val.items[2] = PyNone

\* C22: matrix[key] = value succeeds only for a key (test, model) of a cell
\* the matrix was constructed with and a value that is a Score; every other
\* assignment raises Error and leaves the matrix as it was.
C22_AssignmentChecked ==
  [][result'.op = "setitem"
       => \/ /\ result'.raw.key \in ConstructedCells
             /\ IsScore(result'.raw.value)
          \/ /\ result'.raised
             /\ result'.val.py = "exc"
             /\ result'.val.cls = "Error"
             /\ matrix' = matrix]_vars

\* C23: the keys stored in the matrix are at all times the pairs of a test
\* and a model it was constructed with: no cell is added or removed.
C23_ShapeImmutable ==
  /\ DOMAIN matrix._matrix = Range(matrix.tests)
  /\ \A t \in DOMAIN matrix._matrix : DOMAIN matrix._matrix[t] = Range(matrix.models)

----------------------------------------------------------------------------
(* Properties of TestSuite.from_observations, under FromObsSpec.           *)

\* from_observations was called and returned a suite.
FromObsReturned == result.op = "from_observations" /\ ~result.raised

\* The suite has one test per tuple, in the order of the tuples: the i-th is
\* an instance of the i-th class with the i-th observation, and no two are
\* the same object.
TestsFollowInfos ==
  LET infos == result.raw.tests_info
      tests == result.val.tests
  IN /\ Len(tests) = Len(infos)
     /\ \A i \in 1..Len(infos) :
           /\ tests[i].py = "test"
           /\ tests[i].cls = infos[i].items[1].name
           /\ tests[i].observation = infos[i].items[2]
     /\ \A i, j \in 1..Len(tests) : i # j => tests[i].id # tests[j].id

\* C24 as stated: from_observations returns a suite of one test per tuple,
\* in order, the i-th test named by the third item of the i-th tuple when
\* the tuple has one and by the name of its class otherwise.
C24_NamedByThirdItem ==
  FromObsReturned
    => /\ TestsFollowInfos
       /\ \A i \in 1..Len(result.raw.tests_info) :
             LET info == result.raw.tests_info[i].items
             IN result.val.tests[i].name
                  = IF Len(info) >= 3 THEN info[3] ELSE PyStr(info[1].name)

\* C24 amended: the i-th test is named by the third item of the i-th tuple
\* when the tuple has one that is not None, and by the name of its class
\* when the tuple has two items or None as the third.
C24_NamedByThirdItemUnlessNone ==
  FromObsReturned
    => /\ TestsFollowInfos
       /\ result.val.name = result.raw.name
       /\ \A i \in 1..Len(result.raw.tests_info) :
             LET info == result.raw.tests_info[i].items
             IN result.val.tests[i].name
                  = IF Len(info) >= 3 /\ info[3] # PyNone THEN info[3]
                    ELSE PyStr(info[1].name)

\* The scenario of the spec: the same class twice, the second test named.
C24_Witness ==
  /\ FromObsReturned
  /\ result.raw.tests_info = <<PyTuple(<<T1, Observation("o1")>>),
                               PyTuple(<<T1, Observation("o2"), PyStr("t1b")>>)>>
  /\ Len(result.val.tests) = 2
  /\ result.val.tests[1].name = PyStr("T1") /\ result.val.tests[2].name = PyStr("t1b")
  /\ result.val.tests[1].cls = "T1" /\ result.val.tests[2].cls = "T1"

----------------------------------------------------------------------------
(* Properties of judging with pure author methods, under PureSpec.         *)

----------------------------------------------------------------------------
(* Properties of related_data, under DataSpec.                             *)

\* C26: every score constructed without related_data has a related_data
\* mapping of its own: it holds exactly the entries added through that
\* score, so an entry added to one score shows in no other and a score
\* constructed later starts empty.
C26_OwnRelatedData ==
  \A k \in 1..Len(heap.scores) :
     Contents(heap.scores[k].related_data) = heap.scores[k].added

----------------------------------------------------------------------------
(* Properties of memoize and fn_arg_hash_function, under MemoSpec.         *)

\* The last call was a call of the memoized function.
Memoized == result.op = "memoized"

\* C27: every call of the memoized function returns the value the wrapped
\* function returns for the arguments of that call, never the value cached
\* for a call with other arguments.
C27_MemoizedReturnsOwnValue ==
  Memoized => /\ ~result.raised
              /\ result.val = CallFn(memo.fn, result.raw).val

\* C28: the hash function of fn gives the call made and every call that is
\* the same call of fn (the same values bound to the same parameters) the
\* same hash.
C28_EquivalentCallsSameHash ==
  Memoized
    => \A c \in Calls(memo.fn) :
          CallFn(memo.fn, c) = CallFn(memo.fn, result.raw)
            => hash_(memo.fn, memo.order, c) = hash_(memo.fn, memo.order, result.raw)

----------------------------------------------------------------------------
(* Properties of method_cache, under CachedSpec.                           *)

\* C29: over the calls of the decorated method on one model with the same
\* run arguments, run is executed at most once, and a call that does not
\* execute it leaves the model's attributes as they were recorded after
\* that execution.
C29_RunAtMostOnce ==
  /\ \A m \in CachedModels, a \in RunArgs : cached_runs.runs[m][a] <= 1
  /\ (result.op = "method_cache" /\ ~result.raw.ran
        /\ cached_runs.runs[result.arg][result.raw.run] > 0)
       => cached_runs.dict[result.arg] = cached_runs.recorded[result.arg][result.raw.run]

----------------------------------------------------------------------------
(* Properties of Test.last_model, under Spec.                              *)

\* C30: a judge call on t in which generate_prediction returned sets
\* t.last_model to the model of the call, also when compute_score then
\* raises or returns a score of the wrong type; a judge call that stops at
\* the capability check or in which generate_prediction raises leaves it as
\* it was, and so does every other call.  So after every judge call
\* last_model is the model of the latest call whose prediction was made.
C30_LastModelFrame ==
  [][/\ result'.op = "judge"
          => last_model'[result'.test]
               = IF result'.gp # NotCalled /\ ~result'.gp.raised THEN result'.arg
                 ELSE last_model[result'.test]
     /\ result'.op # "judge" => last_model' = last_model]_vars

\* generate_prediction raised for one model after a prediction had been
\* made for another.
C30_Witness ==
  /\ Judged /\ result.gp # NotCalled /\ result.gp.raised
  /\ last_model[result.test] \in Models
  /\ last_model[result.test] # result.arg

----------------------------------------------------------------------------
(* Properties of the scores of a suite run, under SuiteSpec.               *)

\* The cells of the matrix of the run in progress: every test of the suite
\* with every model of the call.
RunCells == {<<suite.tests[a], run.models[b]>> :
               a \in 1..Len(suite.tests), b \in 1..Len(run.models)}

\* What test.judge would have returned for the k-th call of the run had it
\* been made with stop_on_error=False.
Tolerant(k) ==
  judge(run.judged[k].test, run.judged[k].model, FALSE, FALSE,
        run.judged[k].gp, run.judged[k].cs)

EndsInErrorScore(k) ==
  ~Tolerant(k).raised /\ Tolerant(k).val.cls = "ErrorScore"

\* C31: every score in the matrix returned by suite.judge(models,
\* stop_on_error=False) identifies its own cell: the score at (t, m) has
\* test t and model m, whether it was computed or is an NAScore or an
\* ErrorScore.
C31_ScoresIdentifyTheirCell ==
  (run.pc = "returned" /\ ~run.stop_on_error) =>
     \A c \in RunCells :
        /\ Cell(c[1], c[2]).test = PyRef(c[1])
        /\ Cell(c[1], c[2]).model = PyRef(c[2])

\* C32: in a run with stop_on_error=True, a call of test.judge that ends in
\* an ErrorScore is the last call of the run: the exception the ErrorScore
\* wraps is raised out of suite.judge, which returns no matrix, the call
\* stores nothing, and no later cell is judged.
C32_FirstErrorAborts ==
  run.stop_on_error =>
     \A k \in 1..Len(run.judged) :
        EndsInErrorScore(k) =>
           /\ k = Len(run.judged)
           /\ run.pc = "raised"
           /\ run.val = Tolerant(k).val.score
           /\ Len(run.stored) = k - 1

\* The run was aborted by an author's exception in a cell that was not the
\* first, with cells left unjudged.
C32_Witness ==
  /\ run.stop_on_error /\ run.pc = "raised"
  /\ Len(run.judged) \in 2..(Len(suite.tests) * Len(run.models) - 1)
  /\ EndsInErrorScore(Len(run.judged))
  /\ run.val = ValueError("generate_prediction")

----------------------------------------------------------------------------
(* Properties of the NoneScore family, under Spec.                         *)

\* The scores the last call handled: the value it returned and the value
\* the author's compute_score returned to it.
ScoresInHand == {v \in {result.val, result.cs.val} : IsScore(v)}

\* C33: every score whose effective type is NoneScore, TBDScore or NAScore
\* has raw value None: constructed with an exception the object is an
\* ErrorScore, and any other raw value is rejected by the constructor.
C33_NoneFamilyHoldsNone ==
  /\ \A v \in ScoresInHand : v.cls \in NoneScoreFamily => v.score = PyNone
  /\ (Constructed /\ result.arg \in NoneScoreFamily /\ ~result.raised)
       => IF result.raw.py = "exc"
          THEN result.val.cls = "ErrorScore" /\ result.val.score = result.raw
          ELSE result.val.cls = result.arg /\ result.raw = PyNone

\* An NAScore was constructed with None, and keeps it.
C33_Witness ==
  /\ Constructed /\ result.arg = "NAScore" /\ result.raw = PyNone
  /\ ~result.raised /\ result.val.cls = "NAScore" /\ result.val.score = PyNone

\* A NoneScore was constructed with an exception, and is an ErrorScore.
C33_WitnessReclassified ==
  /\ Constructed /\ result.arg = "NoneScore" /\ result.raw = ValueError("raw")
  /\ ~result.raised /\ result.val.cls = "ErrorScore"

----------------------------------------------------------------------------
(* The frame of ScoreMatrix.__setitem__, under MatrixSpec.                 *)

\* C34: a successful matrix[t, m] = s changes only the cell (t, m): every
\* other pair (t', m') of the matrix reads after the assignment what it
\* read before, and matrix.tests and matrix.models are what they were.
C34_AssignmentFrame ==
  [][(result'.op = "setitem" /\ ~result'.raised)
        => /\ matrix'.tests = matrix.tests
           /\ matrix'.models = matrix.models
           /\ \A other \in ConstructedCells \ {result'.raw.key} :
                 ScoreMatrix__getitem__(matrix', other)
                   = ScoreMatrix__getitem__(matrix, other)]_vars

\* (t1, m1) was assigned while the other cell of its row and a cell of the
\* other row held scores of their own, different from the one assigned.
C34_Witness ==
  /\ result.op = "setitem" /\ ~result.raised
  /\ result.raw.key = PyTuple(<<"t1", "m1">>)
  /\ {PyTuple(<<"t1", "m3">>), PyTuple(<<"t2", "m1">>)} \subseteq ConstructedCells
  /\ Cell("t1", "m1") = result.raw.value
  /\ IsScore(Cell("t1", "m3")) /\ Cell("t1", "m3") # result.raw.value
  /\ IsScore(Cell("t2", "m1")) /\ Cell("t2", "m1") # result.raw.value

====
